---------------------------- MODULE Spec2Model ----------------------------
(***************************************************************************)
(* Model of babcrawl.py: the line scan of extract_vocabulary, and the      *)
(* aggregate pipeline main -> process_files -> save_to_csv.                 *)
(*                                                                         *)
(* A Python str is a sequence of one-character strings.  Characters        *)
(* outside ASCII are written by name: a_uml o_uml u_uml U_uml eszett       *)
(* a_tilde o_tilde c_cedil a_acute e_acute i_acute o_acute u_acute.        *)
(* A pair is a 2-tuple <<german, portuguese>> as in the source.            *)
(***************************************************************************)
EXTENDS Integers, Sequences, FiniteSets, TLC

VARIABLES
    pc,                 \* position of the running function
    text_content,       \* extract_vocabulary: its argument
    lines,              \* extract_vocabulary: text_content.strip().split('\n')
    i,                  \* extract_vocabulary: scan cursor (0-based as in the source)
    vocabulary,         \* extract_vocabulary: pairs emitted so far; main: process_files' result
    gui,                \* main: args.gui
    input_files,        \* main: args.input_files
    fs,                 \* the file system: path -> missing, unreadable or a text
    file_paths,         \* main: the paths to work on
    valid_files,        \* main: the paths that exist
    file_idx,           \* process_files: number of files already taken by the for loop
    all_vocabulary,     \* process_files: accumulated pairs
    unique_vocabulary,  \* process_files: sorted(set(all_vocabulary))
    duplicates_removed, \* process_files: the reported count
    csv,                \* the output file: NoFile, or the characters written
    exit_code,          \* main: returned value, or NoCode while running
    run,                \* which run of process_files + save_to_csv is in progress
    prev_csv            \* the output file of the previous run on the same files

vars == <<pc, text_content, lines, i, vocabulary, gui, input_files, fs, file_paths,
          valid_files, file_idx, all_vocabulary, unique_vocabulary, duplicates_removed,
          csv, exit_code, run, prev_csv>>

scan_vars == <<text_content, lines, i>>
main_vars == <<gui, input_files, fs, file_paths, valid_files, file_idx, all_vocabulary,
               unique_vocabulary, duplicates_removed, csv, exit_code, run, prev_csv>>

-----------------------------------------------------------------------------
(* Bounds of the model *)

MaxLines == 3    \* raw lines in a text given to the scan
MaxFiles == 2    \* paths on the command line or picked in the dialog
MaxRuns == 2     \* runs of the pipeline on the same files

-----------------------------------------------------------------------------
(* Characters and str methods *)

Whitespace == {" ", "\t", "\n", "\r"}
Digits == {"0", "1", "2", "3", "4", "5", "6", "7", "8", "9"}
LowerLetters == {"a", "b", "c", "d", "e", "f", "g", "h", "i", "j", "k", "l", "m", "n",
                 "o", "p", "q", "r", "s", "t", "u", "v", "w", "x", "y", "z",
                 "a_uml", "o_uml", "u_uml", "eszett", "a_tilde", "o_tilde", "c_cedil",
                 "a_acute", "e_acute", "i_acute", "o_acute", "u_acute"}

\* Unicode code points of the characters the model uses: str comparison is by code point.
CodePoint ==
    [c \in {"\t"} |-> 9] @@ [c \in {"\n"} |-> 10] @@ [c \in {"\r"} |-> 13] @@
    (" " :> 32) @@ ("!" :> 33) @@ ("\"" :> 34) @@ ("-" :> 45) @@ ("." :> 46) @@
    ("0" :> 48) @@ ("1" :> 49) @@ ("2" :> 50) @@ ("3" :> 51) @@ ("4" :> 52) @@
    ("5" :> 53) @@ ("6" :> 54) @@ ("7" :> 55) @@ ("8" :> 56) @@ ("9" :> 57) @@
    (";" :> 59) @@
    ("A" :> 65) @@ ("B" :> 66) @@ ("C" :> 67) @@ ("D" :> 68) @@ ("E" :> 69) @@
    ("F" :> 70) @@ ("G" :> 71) @@ ("H" :> 72) @@ ("I" :> 73) @@ ("J" :> 74) @@
    ("K" :> 75) @@ ("L" :> 76) @@ ("M" :> 77) @@ ("N" :> 78) @@ ("O" :> 79) @@
    ("P" :> 80) @@ ("Q" :> 81) @@ ("R" :> 82) @@ ("S" :> 83) @@ ("T" :> 84) @@
    ("U" :> 85) @@ ("V" :> 86) @@ ("W" :> 87) @@ ("X" :> 88) @@ ("Y" :> 89) @@
    ("Z" :> 90) @@
    ("a" :> 97) @@ ("b" :> 98) @@ ("c" :> 99) @@ ("d" :> 100) @@ ("e" :> 101) @@
    ("f" :> 102) @@ ("g" :> 103) @@ ("h" :> 104) @@ ("i" :> 105) @@ ("j" :> 106) @@
    ("k" :> 107) @@ ("l" :> 108) @@ ("m" :> 109) @@ ("n" :> 110) @@ ("o" :> 111) @@
    ("p" :> 112) @@ ("q" :> 113) @@ ("r" :> 114) @@ ("s" :> 115) @@ ("t" :> 116) @@
    ("u" :> 117) @@ ("v" :> 118) @@ ("w" :> 119) @@ ("x" :> 120) @@ ("y" :> 121) @@
    ("z" :> 122) @@
    ("U_uml" :> 220) @@ ("eszett" :> 223) @@ ("a_acute" :> 225) @@ ("a_tilde" :> 227) @@
    ("a_uml" :> 228) @@ ("c_cedil" :> 231) @@ ("e_acute" :> 233) @@ ("i_acute" :> 237) @@
    ("o_acute" :> 243) @@ ("o_tilde" :> 245) @@ ("o_uml" :> 246) @@ ("u_acute" :> 250) @@
    ("u_uml" :> 252)

\* str.lower() on one character
LowerChar(c) ==
    IF c = "U_uml" THEN "u_uml"
    ELSE IF CodePoint[c] >= 65 /\ CodePoint[c] <= 90
         THEN CHOOSE d \in DOMAIN CodePoint : CodePoint[d] = CodePoint[c] + 32
         ELSE c

\* str.lower(): maps every character
lower(s) == [n \in 1..Len(s) |-> LowerChar(s[n])]

\* str < str: lexicographic by code point, a proper prefix is smaller
RECURSIVE StrLess(_, _)
StrLess(a, b) ==
    IF b = <<>> THEN FALSE
    ELSE IF a = <<>> THEN TRUE
    ELSE IF CodePoint[Head(a)] # CodePoint[Head(b)]
         THEN CodePoint[Head(a)] < CodePoint[Head(b)]
         ELSE StrLess(Tail(a), Tail(b))

\* kw in s
Contains(s, kw) ==
    \E n \in 0..(Len(s) - Len(kw)) : SubSeq(s, n + 1, n + Len(kw)) = kw

\* s.startswith(p), s.endswith(p)
StartsWith(s, p) == Len(s) >= Len(p) /\ SubSeq(s, 1, Len(p)) = p
EndsWith(s, p) == Len(s) >= Len(p) /\ SubSeq(s, Len(s) - Len(p) + 1, Len(s)) = p

\* s.isdigit(): non-empty and every character a digit
isdigit(s) == s # <<>> /\ \A n \in 1..Len(s) : s[n] \in Digits

\* s[0].islower()
islower(c) == c \in LowerLetters

\* s.strip(): leading and trailing whitespace removed
strip(s) ==
    LET keep == {n \in 1..Len(s) : s[n] \notin Whitespace}
    IN  IF keep = {} THEN <<>>
        ELSE SubSeq(s, CHOOSE n \in keep : \A m \in keep : n <= m,
                       CHOOSE n \in keep : \A m \in keep : n >= m)

\* s.split('\n'): one more piece than there are newlines
RECURSIVE split(_)
split(s) ==
    LET nl == {n \in 1..Len(s) : s[n] = "\n"}
    IN  IF nl = {} THEN <<s>>
        ELSE LET first == CHOOSE n \in nl : \A m \in nl : n <= m
             IN  <<SubSeq(s, 1, first - 1)>> \o split(SubSeq(s, first + 1, Len(s)))

\* '\n'.join(ls): how the text of a file is laid out from its lines
RECURSIVE join(_)
join(ls) ==
    IF ls = <<>> THEN <<>>
    ELSE IF Len(ls) = 1 THEN ls[1]
    ELSE ls[1] \o <<"\n">> \o join(Tail(ls))

Range(s) == {s[n] : n \in 1..Len(s)}

-----------------------------------------------------------------------------
(* The literals of extract_vocabulary *)

NavKeywords == {<<"H", "o", "m", "e">>, <<"U_uml", "b", "e", "n">>, <<"E", "n", "t", "d", "e", "c", "k", "e", "n">>, <<"A", "l", "l", "e", " ", "V", "o", "k", "a", "b", "e", "l", "n">>, <<"A", "u", "s", "w", "a_uml", "h", "l", "e", "n">>,
                <<"A", "l", "l", "e">>, <<"S", "c", "h", "w", "a", "c", "h">>, <<"M", "i", "t", "t", "e", "l">>, <<"S", "t", "a", "r", "k">>}
FooterMarkers == {<<"L", "e", "r", "n", "e", "n", " ", "m", "i", "t", " ", "B", "a", "b", "b", "e", "l">>, <<"B", "a", "b", "b", "e", "l", "-", "A", "p", "p">>, <<"I", "m", "p", "r", "i", "n", "t">>}
TextMarkers == {<<"A", "l", "l", "e", " ", "W", "o_uml", "r", "t", "e", "r">>, <<"S", "p", "e", "i", "c", "h", "e", "r", "e">>, <<"V", "o", "k", "a", "b", "e", "l", "n", " ", "p", "r", "o", " ", "S", "e", "i", "t", "e">>}
GermanArticles == {<<"d", "e", "r", " ">>, <<"d", "i", "e", " ">>, <<"d", "a", "s", " ">>, <<"d", "e", "n", " ">>, <<"d", "e", "m", " ">>, <<"e", "i", "n", " ">>, <<"e", "i", "n", "e", " ">>,
                   <<"e", "i", "n", "e", "n", " ">>, <<"e", "i", "n", "e", "m", " ">>, <<"D", "e", "r", " ">>, <<"D", "i", "e", " ">>, <<"D", "a", "s", " ">>}
GermanChars == {"a_uml", "o_uml", "u_uml", "eszett"}
PortugueseArticles == {<<"a", " ">>, <<"o", " ">>, <<"a", "s", " ">>, <<"o", "s", " ">>, <<"u", "m", " ">>, <<"u", "m", "a", " ">>}
PortugueseChars == {"a_tilde", "o_tilde", "c_cedil", "a_acute", "e_acute", "i_acute",
                    "o_acute", "u_acute"}
NavigationWords == {<<"L", "e", "r", "n", "e", "n", " ", "m", "i", "t">>, <<"B", "a", "b", "b", "e", "l">>, <<"K", "a", "r", "r", "i", "e", "r", "e">>, <<"I", "m", "p", "r", "i", "n", "t">>, <<"A", "G", "B">>}
MinLineLen == 2
ShortLimit == 50

-----------------------------------------------------------------------------
(* The tests of the scan, in the order of the source *)

\* line 31: empty line or heading
is_heading(line) == line = <<>> \/ line \in NavKeywords

\* line 37: footer
is_footer(line) == \E m \in FooterMarkers : Contains(line, m)

\* line 41: descriptive sentence
is_description(line) ==
    EndsWith(line, <<".">>) /\ \E x \in TextMarkers : Contains(line, x)

\* line 51: there is a next line
has_next(ls, c) == c + 1 < Len(ls)

\* Variant of too_short that does not test next_line
NoEmptyCheck(line, next_line) == Len(line) < MinLineLen

\* line 55: next line empty or line too short
too_short(line, next_line) == next_line = <<>> \/ Len(line) < MinLineLen

has_german_article(next_line) == \E a \in GermanArticles : StartsWith(next_line, a)
has_german_chars(next_line) == \E n \in 1..Len(next_line) : next_line[n] \in GermanChars
has_portuguese_article(line) == \E a \in PortugueseArticles : StartsWith(line, a)
has_portuguese_chars(line) == \E n \in 1..Len(line) : line[n] \in PortugueseChars
starts_lowercase(line) == islower(line[1])

\* lines 72-73: case 1
clear_marks(line, next_line) ==
    /\ has_portuguese_article(line) \/ has_portuguese_chars(line) \/ starts_lowercase(line)
    /\ has_german_article(next_line) \/ has_german_chars(next_line)

is_not_navigation(s) == ~ \E keyword \in NavigationWords : Contains(s, keyword)

\* Variant of short_pair that admits lines of exactly ShortLimit characters
ShortInclusive(line, next_line) ==
    /\ Len(line) <= ShortLimit /\ Len(next_line) <= ShortLimit
    /\ is_not_navigation(line) /\ is_not_navigation(next_line)

\* line 87: case 2
short_pair(line, next_line) ==
    /\ Len(line) < ShortLimit /\ Len(next_line) < ShortLimit
    /\ is_not_navigation(line) /\ is_not_navigation(next_line)

\* The branch one pass of the while body takes at cursor c (c < Len(ls))
Branch(ls, c) ==
    LET line == strip(ls[c + 1]) IN
    IF is_heading(line) THEN "heading"
    ELSE IF is_footer(line) THEN "footer"
    ELSE IF is_description(line) THEN "description"
    ELSE IF isdigit(line) THEN "number"
    ELSE IF ~ has_next(ls, c) THEN "last"
    ELSE LET next_line == strip(ls[c + 2]) IN
         IF too_short(line, next_line) THEN "short"
         ELSE IF clear_marks(line, next_line) THEN "case1"
         ELSE IF short_pair(line, next_line) THEN "case2"
         ELSE "single"

\* lines 74 and 89: the tuple appended
new_pair(ls, c) == <<strip(ls[c + 2]), strip(ls[c + 1])>>

\* extract_vocabulary as a function of its argument: the while loop run to its end
RECURSIVE scan_from(_, _, _)
scan_from(ls, c, voc) ==
    IF ~ (c < Len(ls)) THEN voc
    ELSE LET b == Branch(ls, c) IN
         IF b = "footer" THEN voc
         ELSE IF b \in {"case1", "case2"}
              THEN scan_from(ls, c + 2, Append(voc, new_pair(ls, c)))
              ELSE scan_from(ls, c + 1, voc)

extract_vocabulary(text) == scan_from(split(strip(text)), 0, <<>>)

-----------------------------------------------------------------------------
(* Inputs of the scan *)

LongLine == [n \in 1..ShortLimit |-> "x"]

RawLines == {
    <<>>,
    <<"H", "o", "m", "e">>,
    <<"4", "2">>,
    <<"B", "a", "b", "b", "e", "l", "-", "A", "p", "p">>,
    <<"d", "i", "e", " ", "B", "a", "b", "b", "e", "l", "-", "A", "p", "p">>,
    <<"A", "l", "l", "e", " ", "W", "o_uml", "r", "t", "e", "r", ".">>,
    <<"o", " ", "l", "i", "v", "r", "o">>,
    <<"d", "a", "s", " ", "B", "u", "c", "h">>,
    <<"O", "i", "!">>,
    <<"H", "a", "l", "l", "o", "!">>,
    <<" ", "o", "i", " ">>,
    <<"a">>,
    <<"A", "G", "B">>,
    LongLine }

RECURSIVE SeqsUpTo(_, _)
SeqsUpTo(S, n) ==
    IF n = 0 THEN {<<>>}
    ELSE LET shorter == SeqsUpTo(S, n - 1)
         IN  shorter \cup {Append(s, x) : s \in shorter, x \in S}

ScanTexts == {join(ls) : ls \in SeqsUpTo(RawLines, MaxLines)}

\* The output file before save_to_csv has run, and the file it writes
NoFile == [written |-> FALSE, text |-> <<>>]
Written(t) == [written |-> TRUE, text |-> t]

\* exit_code is <<>> while main runs and <<n>> once it has returned n
NoCode == <<>>
Returned(n) == <<n>>

-----------------------------------------------------------------------------
(* extract_vocabulary, one pass of the while loop per step *)

InitScan ==
    /\ pc = "extract"
    /\ text_content \in ScanTexts
    /\ lines = <<>>
    /\ i = 0
    /\ vocabulary = <<>>
    /\ gui = FALSE
    /\ input_files = <<>>
    /\ fs = <<>>
    /\ file_paths = <<>>
    /\ valid_files = <<>>
    /\ file_idx = 0
    /\ all_vocabulary = <<>>
    /\ unique_vocabulary = <<>>
    /\ duplicates_removed = 0
    /\ csv = NoFile
    /\ exit_code = NoCode
    /\ run = 1
    /\ prev_csv = NoFile

\* lines 23-26
ScanEnter ==
    /\ pc = "extract"
    /\ vocabulary' = <<>>
    /\ lines' = split(strip(text_content))
    /\ i' = 0
    /\ pc' = "scan"
    /\ UNCHANGED <<text_content, main_vars>>

AtBranch(b) == pc = "scan" /\ i < Len(lines) /\ Branch(lines, i) = b

Advance(n) ==
    /\ i' = i + n
    /\ UNCHANGED <<pc, text_content, lines, main_vars>>

\* lines 31-34
ScanHeading == AtBranch("heading") /\ Advance(1) /\ UNCHANGED vocabulary

\* lines 37-38, then line 95
ScanFooter ==
    /\ AtBranch("footer")
    /\ pc' = "returned"
    /\ UNCHANGED <<vocabulary, scan_vars, main_vars>>

\* lines 41-43
ScanDescription == AtBranch("description") /\ Advance(1) /\ UNCHANGED vocabulary

\* lines 46-48
ScanNumber == AtBranch("number") /\ Advance(1) /\ UNCHANGED vocabulary

\* line 51 false, then line 93
ScanLast == AtBranch("last") /\ Advance(1) /\ UNCHANGED vocabulary

\* lines 55-57
ScanShort == AtBranch("short") /\ Advance(1) /\ UNCHANGED vocabulary

\* lines 72-76
ScanCase1 ==
    /\ AtBranch("case1")
    /\ vocabulary' = Append(vocabulary, new_pair(lines, i))
    /\ Advance(2)

\* lines 87-91
ScanCase2 ==
    /\ AtBranch("case2")
    /\ vocabulary' = Append(vocabulary, new_pair(lines, i))
    /\ Advance(2)

\* line 87 false, then line 93
ScanSingle == AtBranch("single") /\ Advance(1) /\ UNCHANGED vocabulary

\* line 27 false, then line 95
ScanReturn ==
    /\ pc = "scan"
    /\ ~ (i < Len(lines))
    /\ pc' = "returned"
    /\ UNCHANGED <<vocabulary, scan_vars, main_vars>>

NextScan ==
    \/ ScanEnter
    \/ ScanHeading
    \/ ScanFooter
    \/ ScanDescription
    \/ ScanNumber
    \/ ScanLast
    \/ ScanShort
    \/ ScanCase1
    \/ ScanCase2
    \/ ScanSingle
    \/ ScanReturn

SpecScan == InitScan /\ [][NextScan]_vars

-----------------------------------------------------------------------------
(* Inputs of the pipeline *)

Paths == {"a.txt", "b.txt"}

\* What a file holds: its decoded text
FileTexts == {
    join(<<<<"O", "i", "!">>, <<"H", "a", "l", "l", "o", "!">>>>),
    join(<<<<"O", "i", "!">>, <<"h", "a", "l", "l", "o", "!">>>>),
    join(<<<<"o", "l", "a_acute">>, <<"H", "a", "l", "l", "o", "!">>>>),
    join(<<<<"o", " ", "l", "i", "v", "r", "o">>, <<"d", "a", "s", " ", "B", "u", "c", "h">>, <<"O", "i", "!">>, <<"H", "a", "l", "l", "o", "!">>>>),
    join(<<<<"H", "o", "m", "e">>, <<"4", "2">>>>) }

\* Path.exists() is false for "missing"; open()/read() raises for "unreadable"
FileStates ==
    {[kind |-> "missing", text |-> <<>>], [kind |-> "unreadable", text |-> <<>>]}
    \cup {[kind |-> "text", text |-> t] : t \in FileTexts}

exists(p) == fs[p].kind # "missing"
readable(p) == fs[p].kind = "text"

-----------------------------------------------------------------------------
(* process_files and save_to_csv *)

\* Variant of sort_key without lower()
RawKey(x) == x[1]

\* line 123: the key of the sort
sort_key(x) == lower(x[1])

\* list.sort is stable: x goes behind every element whose key is not greater
insert_sorted(out, x) ==
    LET n == Cardinality({m \in 1..Len(out) : ~ StrLess(sort_key(x), sort_key(out[m]))})
    IN  SubSeq(out, 1, n) \o <<x>> \o SubSeq(out, n + 1, Len(out))

RECURSIVE sorted(_)
sorted(s) ==
    IF s = <<>> THEN <<>>
    ELSE insert_sorted(sorted(SubSeq(s, 1, Len(s) - 1)), s[Len(s)])

\* Variant of set_iterations that keeps one tuple per lower-cased German field
DedupByGerman(all) ==
    LET firsts == {n \in 1..Len(all) :
                      \A m \in 1..(n - 1) : lower(all[m][1]) # lower(all[n][1])}
        S == {all[n] : n \in firsts}
    IN  {s \in [1..Cardinality(S) -> S] : Range(s) = S}

\* Variant of set_iterations without set(): the list as accumulated
KeepDuplicates(all) == {all}

\* line 123, set(all_vocabulary): equal tuples collapse.  The order in which a set of
\* str tuples is iterated depends on the per-process hash seed, so every order of the
\* distinct tuples is possible.
set_iterations(all) ==
    LET S == Range(all)
    IN  {s \in [1..Cardinality(S) -> S] : Range(s) = S}

\* lines 110-120 for one file: what the file adds to all_vocabulary
contribution(p) == IF readable(p) THEN extract_vocabulary(fs[p].text) ELSE <<>>

\* Variant of after_error with the handler around the loop: the error ends the loop
AbortLoop(idx, n) == n

\* lines 119-120: the handler is inside the for loop, which goes on with the next file
after_error(idx, n) == idx + 1

\* csv.writer with delimiter ';', quotechar '"', QUOTE_MINIMAL, lineterminator '\r\n'
RECURSIVE double_quotes(_)
double_quotes(s) ==
    IF s = <<>> THEN <<>>
    ELSE (IF Head(s) = "\"" THEN <<"\"", "\"">> ELSE <<Head(s)>>) \o double_quotes(Tail(s))

csv_field(s) ==
    IF \E n \in 1..Len(s) : s[n] \in {";", "\"", "\r", "\n"}
    THEN <<"\"">> \o double_quotes(s) \o <<"\"">>
    ELSE s

csv_row(row) == csv_field(row[1]) \o <<";">> \o csv_field(row[2]) \o <<"\r", "\n">>

RECURSIVE csv_rows(_)
csv_rows(rows) == IF rows = <<>> THEN <<>> ELSE csv_row(Head(rows)) \o csv_rows(Tail(rows))

\* lines 142-145: the file save_to_csv writes
save_to_csv(rows) == csv_row(<<<<"D", "e", "u", "t", "s", "c", "h">>, <<"P", "o", "r", "t", "u", "g", "i", "e", "s", "i", "s", "c", "h">>>>) \o csv_rows(rows)

\* Variant of no_vocabulary that never reports an empty list
NeverEmpty(v) == FALSE

\* line 223: not vocabulary
no_vocabulary(v) == v = <<>>

-----------------------------------------------------------------------------
(* main *)

Init ==
    /\ pc = "main"
    /\ gui \in BOOLEAN
    /\ input_files \in SeqsUpTo(Paths, MaxFiles)
    /\ fs \in [Paths -> FileStates]
    /\ file_paths = <<>>
    /\ valid_files = <<>>
    /\ file_idx = 0
    /\ all_vocabulary = <<>>
    /\ unique_vocabulary = <<>>
    /\ duplicates_removed = 0
    /\ vocabulary = <<>>
    /\ csv = NoFile
    /\ exit_code = NoCode
    /\ run = 1
    /\ prev_csv = NoFile
    /\ text_content = <<>>
    /\ lines = <<>>
    /\ i = 0

process_vars == <<file_idx, all_vocabulary, unique_vocabulary, duplicates_removed, vocabulary>>
input_vars == <<gui, input_files, fs, run, prev_csv, scan_vars>>

\* lines 196-201: the dialog; the user picks any files, or none
MainDialog ==
    /\ pc = "main"
    /\ gui \/ input_files = <<>>
    /\ \E picked \in SeqsUpTo(Paths, MaxFiles) :
           /\ file_paths' = picked
           /\ IF picked = <<>>
              THEN pc' = "exit" /\ exit_code' = Returned(1)
              ELSE pc' = "validate" /\ UNCHANGED exit_code
    /\ UNCHANGED <<valid_files, process_vars, csv, input_vars>>

\* lines 202-203
MainArgs ==
    /\ pc = "main"
    /\ ~ (gui \/ input_files = <<>>)
    /\ file_paths' = input_files
    /\ pc' = "validate"
    /\ UNCHANGED <<valid_files, process_vars, csv, exit_code, input_vars>>

\* lines 206-221 and 108: keep the paths that exist; return 1 when none does
MainValidate ==
    /\ pc = "validate"
    /\ valid_files' = SelectSeq(file_paths, exists)
    /\ IF valid_files' = <<>>
       THEN pc' = "exit" /\ exit_code' = Returned(1)
       ELSE pc' = "process" /\ UNCHANGED exit_code
    /\ all_vocabulary' = <<>>
    /\ file_idx' = 0
    /\ UNCHANGED <<file_paths, unique_vocabulary, duplicates_removed, vocabulary, csv,
                   input_vars>>

\* lines 110-118: a file that is read
ProcessFile ==
    /\ pc = "process"
    /\ file_idx < Len(valid_files)
    /\ readable(valid_files[file_idx + 1])
    /\ all_vocabulary' = all_vocabulary \o extract_vocabulary(fs[valid_files[file_idx + 1]].text)
    /\ file_idx' = file_idx + 1
    /\ UNCHANGED <<pc, file_paths, valid_files, unique_vocabulary, duplicates_removed,
                   vocabulary, csv, exit_code, input_vars>>

\* lines 110-114 and 119-120: open() or read() raises
ProcessFileError ==
    /\ pc = "process"
    /\ file_idx < Len(valid_files)
    /\ ~ readable(valid_files[file_idx + 1])
    /\ file_idx' = after_error(file_idx, Len(valid_files))
    /\ UNCHANGED <<pc, file_paths, valid_files, all_vocabulary, unique_vocabulary,
                   duplicates_removed, vocabulary, csv, exit_code, input_vars>>

\* lines 122-131, and the assignment of line 221
ProcessReturn ==
    /\ pc = "process"
    /\ ~ (file_idx < Len(valid_files))
    /\ \E order \in set_iterations(all_vocabulary) :
           /\ unique_vocabulary' = sorted(order)
           /\ duplicates_removed' = Len(all_vocabulary) - Len(sorted(order))
           /\ vocabulary' = sorted(order)
    /\ pc' = "check"
    /\ UNCHANGED <<file_paths, valid_files, file_idx, all_vocabulary, csv, exit_code,
                   input_vars>>

\* lines 223-225
MainNoVocabulary ==
    /\ pc = "check"
    /\ no_vocabulary(vocabulary)
    /\ exit_code' = Returned(1)
    /\ pc' = "exit"
    /\ UNCHANGED <<file_paths, valid_files, process_vars, csv, input_vars>>

\* lines 228-235
MainSave ==
    /\ pc = "check"
    /\ ~ no_vocabulary(vocabulary)
    /\ csv' = Written(save_to_csv(vocabulary))
    /\ exit_code' = Returned(0)
    /\ pc' = "exit"
    /\ UNCHANGED <<file_paths, valid_files, process_vars, input_vars>>

\* lines 221-228 once more: process_files and save_to_csv run again, in a new process,
\* on the same files; the file written before is kept for comparison
RunAgain ==
    /\ pc = "exit"
    /\ exit_code = Returned(0)
    /\ run < MaxRuns
    /\ run' = run + 1
    /\ prev_csv' = csv
    /\ csv' = NoFile
    /\ exit_code' = NoCode
    /\ all_vocabulary' = <<>>
    /\ file_idx' = 0
    /\ pc' = "process"
    /\ UNCHANGED <<file_paths, valid_files, unique_vocabulary, duplicates_removed,
                   vocabulary, gui, input_files, fs, scan_vars>>

Next ==
    \/ MainDialog
    \/ MainArgs
    \/ MainValidate
    \/ ProcessFile
    \/ ProcessFileError
    \/ ProcessReturn
    \/ MainNoVocabulary
    \/ MainSave
    \/ RunAgain

Spec == Init /\ [][Next]_vars

-----------------------------------------------------------------------------
(* Properties of the scan *)

\* The four skip filters of the scan (lines 31, 37, 41 and 46), as the claims name them
SurvivesFilters(l) ==
    /\ l # <<>>
    /\ l \notin NavKeywords
    /\ ~ \E m \in FooterMarkers : Contains(l, m)
    /\ ~ (l[Len(l)] = "." /\ \E x \in TextMarkers : Contains(l, x))
    /\ \E n \in 1..Len(l) : l[n] \notin Digits

\* Cursor positions (0-based) of the lines that contain a footer substring
FooterPositions == {c \in 0..(Len(lines) - 1) : ~ is_heading(strip(lines[c + 1]))
                                                /\ is_footer(strip(lines[c + 1]))}

\* C1: with f the first line containing a footer substring, the scan ends as soon as
\* the cursor is on f, and no pair is ever built from line f or a line after it: a
\* step that emits a pair at cursor i reads lines i and i+1, both before f.
C1_FooterBoundary ==
    [][(pc = "scan" /\ FooterPositions # {}) =>
        LET f == CHOOSE c \in FooterPositions : \A d \in FooterPositions : c <= d
        IN  /\ (i = f => pc' = "returned" /\ vocabulary' = vocabulary)
            /\ (vocabulary' # vocabulary => i + 1 < f)]_vars

\* C2: both members of every emitted pair survive the skip filters of the scan.
C2_BothSurvive ==
    \A n \in 1..Len(vocabulary) :
        SurvivesFilters(vocabulary[n][1]) /\ SurvivesFilters(vocabulary[n][2])

\* C3: no emitted pair has an empty German or Portuguese field, also after trimming,
\* and the empty text returns the empty list.
C3_NoEmptyField ==
    /\ \A n \in 1..Len(vocabulary) :
           /\ vocabulary[n][1] # <<>> /\ strip(vocabulary[n][1]) # <<>>
           /\ vocabulary[n][2] # <<>> /\ strip(vocabulary[n][2]) # <<>>
    /\ (text_content = <<>> /\ pc # "extract") => (vocabulary = <<>> /\ Len(lines) = 1)

\* C3 witness: a returned pair one of whose lines had whitespace to trim.
C3_Witness ==
    /\ pc = "returned"
    /\ \E n \in 1..(Len(lines) - 1) :
           /\ lines[n] # strip(lines[n])
           /\ <<strip(lines[n + 1]), strip(lines[n])>> \in Range(vocabulary)

\* The two signals of the acceptance rule, as the claim words them
C10_Strong(L, N) ==
    /\ \/ \E a \in GermanArticles : Len(N) >= Len(a) /\ SubSeq(N, 1, Len(a)) = a
       \/ \E n \in 1..Len(N) : N[n] \in GermanChars
    /\ \/ \E a \in PortugueseArticles : Len(L) >= Len(a) /\ SubSeq(L, 1, Len(a)) = a
       \/ \E n \in 1..Len(L) : L[n] \in PortugueseChars
       \/ L[1] \in LowerLetters

C10_Weak(L, N) ==
    /\ Len(L) < 50
    /\ Len(N) < 50
    /\ \A w \in NavigationWords : ~ Contains(L, w) /\ ~ Contains(N, w)

\* C10: at a candidate line L the step emits (german = N, portuguese = L) and moves
\* the cursor by 2 exactly when N exists, N is non-empty, L has at least 2 characters
\* and the strong or the weak signal holds; otherwise it emits nothing and moves by 1.
C10_AcceptanceRule ==
    [][(pc = "scan" /\ i < Len(lines) /\ SurvivesFilters(strip(lines[i + 1]))) =>
        LET L == strip(lines[i + 1])
            N == IF i + 1 < Len(lines) THEN strip(lines[i + 2]) ELSE <<>>
        IN  IF /\ i + 1 < Len(lines)
               /\ N # <<>>
               /\ Len(L) >= 2
               /\ C10_Strong(L, N) \/ C10_Weak(L, N)
            THEN vocabulary' = Append(vocabulary, <<N, L>>) /\ i' = i + 2 /\ pc' = "scan"
            ELSE vocabulary' = vocabulary /\ i' = i + 1 /\ pc' = "scan"]_vars

\* C10 witness: a pair accepted on the weak signal alone, with the scan going on.
C10_Witness ==
    /\ pc = "scan"
    /\ i = 2
    /\ i < Len(lines)
    /\ Len(vocabulary) = 1
    /\ C10_Weak(vocabulary[1][2], vocabulary[1][1])
    /\ ~ C10_Strong(vocabulary[1][2], vocabulary[1][1])

-----------------------------------------------------------------------------
(* Properties of the pipeline *)

\* The pairs the given files yield, file by file in list order; a file that cannot be
\* read yields none
RECURSIVE extracted_from(_)
extracted_from(files) ==
    IF files = <<>> THEN <<>>
    ELSE contribution(Head(files)) \o extracted_from(Tail(files))

Processed == pc = "check" \/ (pc = "exit" /\ valid_files # <<>>)

\* C4: a second run of process_files and save_to_csv on the same files writes a file
\* identical, byte for byte, to the one the first run wrote.
C4_Idempotent == (pc = "exit" /\ run > 1) => csv = prev_csv

\* C5 as claimed: no two entries of the returned list have German fields that are
\* equal when lower-cased.
C5_NoEqualGermanKeys ==
    Processed =>
        \A m, n \in 1..Len(unique_vocabulary) :
            m # n => lower(unique_vocabulary[m][1]) # lower(unique_vocabulary[n][1])

\* C5 as amended: no two entries of the returned list are the same (German, Portuguese)
\* tuple, both fields compared exactly.
C5_NoEqualTuples ==
    Processed =>
        \A m, n \in 1..Len(unique_vocabulary) :
            m # n => unique_vocabulary[m] # unique_vocabulary[n]

\* C5 witness: duplicates were removed and more than one entry is left.
C5_Witness ==
    /\ pc = "check"
    /\ duplicates_removed > 0
    /\ Len(unique_vocabulary) >= 2

\* C6: the returned list holds every distinct pair extracted from a readable file
\* exactly once and nothing else, and the reported count is the number of extracted
\* pairs minus the number of distinct ones.
C6_DedupExact ==
    Processed =>
        LET extracted == extracted_from(valid_files) IN
        /\ Range(unique_vocabulary) = Range(extracted)
        /\ Len(unique_vocabulary) = Cardinality(Range(extracted))
        /\ duplicates_removed = Len(extracted) - Cardinality(Range(extracted))

\* C6 witness: two files that each yield ("Hallo!", "Oi!"): one entry, one duplicate.
C6_Witness ==
    /\ pc = "check"
    /\ Len(valid_files) = 2
    /\ valid_files[1] # valid_files[2]
    /\ unique_vocabulary = << <<<<"H", "a", "l", "l", "o", "!">>, <<"O", "i", "!">>>> >>
    /\ duplicates_removed = 1

\* C7: the returned list is non-decreasing by the lower-cased German field.
C7_SortedByGerman ==
    Processed =>
        \A n \in 1..(Len(unique_vocabulary) - 1) :
            ~ StrLess(lower(unique_vocabulary[n + 1][1]), lower(unique_vocabulary[n][1]))

\* C7 witness: two entries whose order by the lower-cased German field is the reverse
\* of their order by the German field as written.
C7_Witness ==
    /\ pc = "check"
    /\ Len(unique_vocabulary) = 2
    /\ StrLess(unique_vocabulary[2][1], unique_vocabulary[1][1])

C9_BestEffort ==
    /\ pc = "process" =>
           /\ file_idx <= Len(valid_files)
           /\ all_vocabulary = extracted_from(SubSeq(valid_files, 1, file_idx))
    /\ Processed =>
           /\ file_idx = Len(valid_files)
           /\ all_vocabulary = extracted_from(valid_files)

\* C9 witness: pairs of the first file are kept over a second file that cannot be read,
\* or a file is read after one that could not be.
C9_Witness ==
    /\ pc = "check"
    /\ all_vocabulary # <<>>
    /\ \E n \in 1..(Len(valid_files) - 1) :
           /\ ~ readable(valid_files[n])
           /\ contribution(valid_files[n + 1]) # <<>>

=============================================================================
